---- MODULE Spec2Model ----
(***************************************************************************)
(* Smart-Parking-Management: the ParkingLot occupancy store and its fee    *)
(* calculation (src/src/parking_lot.cpp, src/src/car.cpp).                 *)
(*                                                                         *)
(* Modelling conventions                                                   *)
(*  - A Car is a record.  The free-form text attributes that no operation  *)
(*    reads (model, color, fuelType, phone, email, membership,             *)
(*    paymentMethod, slotSize, exitGate) are represented by licensePlate   *)
(*    and slot, which are carried the same way.                            *)
(*  - Time is counted in clock ticks, TicksPerMinute ticks to the minute.  *)
(*  - double amounts are exact rationals scaled by MoneyScale, so that     *)
(*    hours = minutes / 60.0, the 30% discount and the 18% GST are whole   *)
(*    numbers.  Floating-point rounding is not modelled.                   *)
(*  - Object identity: held is the caller's Car object, heldRef is the     *)
(*    index of the stored Car it shares storage with (0: none).            *)
(***************************************************************************)
EXTENDS Integers, Sequences, FiniteSets, TLC

\* ------------------------------------------------------------------ bounds
\* calls made on one store in a run
MaxSteps == 4
\* records stored by the fill loop before the run starts
PreFill == 99
\* clock resolution
TicksPerMinute == 2

\* --------------------------------------------------------------- constants
MAX_CAPACITY == 100
FirstCarID == 1001
DefaultHourlyRate == 50
DiscountThresholdHours == 5
DiscountPercent == 30
GstPercent == 18
MinutesPerHour == 60

\* money unit: 1 / MoneyScale of a rupee; amounts are multiples of 100 units,
\* so the percentages below divide exactly
MoneyScale == MinutesPerHour * 100 * 100

VARIABLES cars,        \* std::vector<Car> cars
          nextCarID,   \* int nextCarID
          silentMode,  \* bool silentMode
          now,         \* std::chrono::system_clock::now(), in ticks
          csvRows,     \* rows appended to cars_data.csv
          billLog,     \* bills appended to bill_history.txt
          held,        \* the Car object in the caller's hands
          heldRef,     \* index of the stored Car that held shares storage with
          call,        \* the last call on the store and what it returned
          assigned,    \* ids of the records parkCar has stored, in order
          steps        \* calls made so far

vars == <<cars, nextCarID, silentMode, now, csvRows, billLog,
          held, heldRef, call, assigned, steps>>

\* ------------------------------------------------------------------- Car
\* Car::Car(): id 0, empty strings, rate 50, flags false, parkingTime now
DefaultCar(t) ==
    [id |-> 0, ownerName |-> "", licensePlate |-> "", slot |-> "",
     reservedSlot |-> FALSE, hourlyRate |-> DefaultHourlyRate,
     dynamicPricing |-> FALSE, parkingTime |-> t]

\* Car::Car(id, ownerName, ..., dynamicPricing): parkingTime now
CarCtor(id, owner, plate, slot, reserved, rate, dyn, t) ==
    [id |-> id, ownerName |-> owner, licensePlate |-> plate, slot |-> slot,
     reservedSlot |-> reserved, hourlyRate |-> rate,
     dynamicPricing |-> dyn, parkingTime |-> t]

\* test fixture createCar(id, owner, dynamicPricing, hourlyRate)
createCar(id, owner, dyn, rate, t) ==
    CarCtor(id, owner, "MH12AB1234", "S1", FALSE, rate, dyn, t)

TicksPerHour == MinutesPerHour * TicksPerMinute

\* ----------------------------------------------------------------- inputs
\* owner names typed at the prompt of parkCar
ParkOwners == {"John Doe", "John Doe "}

\* what the other prompts of parkCar collect: rate, dynamic pricing,
\* reserved slot, parking duration in hours (0: park now)
ParkProfiles ==
    { [rate |-> 100, dyn |-> TRUE,  reserved |-> FALSE, hours |-> 5],
      [rate |-> 60,  dyn |-> FALSE, reserved |-> TRUE,  hours |-> 0] }

\* what the callers of testAddCar pass to createCar, and the hours by
\* which they then move parkingTime (c.parkingTime = now - hours(3))
TestFixtures ==
    { [id |-> 1001, owner |-> "John Doe", dyn |-> FALSE,
       rate |-> DefaultHourlyRate, ago |-> 0],
      [id |-> 1001, owner |-> "john doe", dyn |-> TRUE,
       rate |-> 100, ago |-> DiscountThresholdHours],
      [id |-> 0, owner |-> "John Doe", dyn |-> FALSE,
       rate |-> 0, ago |-> -1] }

\* Car c = createCar(...); c.parkingTime = now - hours(ago);
TestCar(f, t) == createCar(f.id, f.owner, f.dyn, f.rate, t - f.ago * TicksPerHour)

\* arguments of removeCarByIdAndOwner
RemoveArgs ==
    ({1001, 1002} \X {"John Doe", "john doe", "John Doe "})
        \cup {<<1001, "Owner1">>, <<0, "John Doe">>}

\* arguments of getCarByID
QueryIds == {0, 1001, 1002, 9999}

\* ------------------------------------------------------------ fee formula
\* mutant: a started minute counts as a whole one (std::chrono::ceil)
ToMinutes_Ceil(d) == IF d >= 0 THEN (d + TicksPerMinute - 1) \div TicksPerMinute
                     ELSE -((-d) \div TicksPerMinute)

\* mutant: the length of the interval is taken, whichever way it runs
ToMinutes_Abs(d) == IF d >= 0 THEN d \div TicksPerMinute
                    ELSE (-d) \div TicksPerMinute

\* duration_cast<minutes>: truncation toward zero
ToMinutes(d) == IF d >= 0 THEN d \div TicksPerMinute
                ELSE -((-d) \div TicksPerMinute)

\* mutant: std::max(0.0, ...) is lost
ElapsedMinutes_NoClamp(car, t) == ToMinutes(t - car.parkingTime)

\* hours = max(0.0, minutes / 60.0), in minutes
ElapsedMinutes(car, t) ==
    LET m == ToMinutes(t - car.parkingTime) IN IF m > 0 THEN m ELSE 0

\* the fee formula with one of its steps changed; the mutants below use it
\*   from5h:    the discount test is hours >= 5.0
\*   gstOnAll:  GST is taken of the subtotal before the discount
\*   gstAlways: GST is charged without dynamicPricing too
\*   zeroRate:  the rate charged when hourlyRate is 0
FeeVariant(car, t, from5h, gstOnAll, gstAlways, zeroRate) ==
    LET minutes  == ElapsedMinutes(car, t)
        rate     == IF car.hourlyRate = 0 THEN zeroRate ELSE car.hourlyRate
        subtotal == minutes * rate * (MoneyScale \div MinutesPerHour)
        limit    == DiscountThresholdHours * MinutesPerHour
        discount == IF car.dynamicPricing
                       /\ (minutes > limit \/ (from5h /\ minutes = limit))
                    THEN (subtotal \div 100) * DiscountPercent ELSE 0
        sub2     == subtotal - discount
        base     == IF gstOnAll THEN subtotal ELSE sub2
        gst      == IF car.dynamicPricing \/ gstAlways
                    THEN (base \div 100) * GstPercent ELSE 0
    IN sub2 + gst

\* mutant: the bill shows the variable gross, which the discount has
\* already been taken from, instead of hours * hourlyRate
Bill_GrossAfterDiscount(car, t) ==
    LET minutes  == ElapsedMinutes(car, t)
        gross    == minutes * car.hourlyRate * (MoneyScale \div MinutesPerHour)
        disc     == IF car.dynamicPricing
                       /\ minutes > DiscountThresholdHours * MinutesPerHour
                    THEN (gross \div 100) * DiscountPercent ELSE 0
        net      == gross - disc
        gst      == IF car.dynamicPricing THEN (net \div 100) * GstPercent ELSE 0
    IN [id |-> car.id, ownerName |-> car.ownerName,
        licensePlate |-> car.licensePlate, minutes |-> minutes,
        hourlyRate |-> car.hourlyRate, gross |-> net,
        discount |-> disc, gst |-> gst, total |-> net + gst]

\* mutant: GST is taken of the printed gross, before the discount
Bill_GstOnGross(car, t) ==
    LET minutes  == ElapsedMinutes(car, t)
        gross    == minutes * car.hourlyRate * (MoneyScale \div MinutesPerHour)
        disc     == IF car.dynamicPricing
                       /\ minutes > DiscountThresholdHours * MinutesPerHour
                    THEN (gross \div 100) * DiscountPercent ELSE 0
        net      == gross - disc
        gst      == IF car.dynamicPricing THEN (gross \div 100) * GstPercent ELSE 0
    IN [id |-> car.id, ownerName |-> car.ownerName,
        licensePlate |-> car.licensePlate, minutes |-> minutes,
        hourlyRate |-> car.hourlyRate, gross |-> gross,
        discount |-> disc, gst |-> gst, total |-> net + gst]

\* the breakdown computed by removeCarByIdAndOwner
Bill(car, t) ==
    LET minutes  == ElapsedMinutes(car, t)
        gross    == minutes * car.hourlyRate * (MoneyScale \div MinutesPerHour)
        disc     == IF car.dynamicPricing
                       /\ minutes > DiscountThresholdHours * MinutesPerHour
                    THEN (gross \div 100) * DiscountPercent ELSE 0
        net      == gross - disc
        gst      == IF car.dynamicPricing THEN (net \div 100) * GstPercent ELSE 0
    IN [id |-> car.id, ownerName |-> car.ownerName,
        licensePlate |-> car.licensePlate, minutes |-> minutes,
        hourlyRate |-> car.hourlyRate, gross |-> gross,
        discount |-> disc, gst |-> gst, total |-> net + gst]

\* mutant: the discount starts at 5 hours, hours >= 5.0
calculateFee_DiscountFrom5h(car, t) == FeeVariant(car, t, TRUE, FALSE, FALSE, 0)

\* mutant: GST of the subtotal before the discount
calculateFee_GstOnSubtotal(car, t) == FeeVariant(car, t, FALSE, TRUE, FALSE, 0)

\* mutant: GST charged whether or not dynamicPricing is set
calculateFee_GstAlways(car, t) == FeeVariant(car, t, FALSE, FALSE, TRUE, 0)

\* mutant: a record with rate 0 is charged the default rate of Car::Car()
calculateFee_DefaultRateForZero(car, t) ==
    FeeVariant(car, t, FALSE, FALSE, FALSE, DefaultHourlyRate)

\* mutant: a reserved slot is charged half as much again
calculateFee_ReservedSurcharge(car, t) ==
    LET fee == FeeVariant(car, t, FALSE, FALSE, FALSE, 0)
    IN IF car.reservedSlot THEN fee + fee \div 2 ELSE fee

\* ParkingLot::calculateFee
calculateFee(car, t) ==
    LET minutes  == ElapsedMinutes(car, t)
        subtotal == minutes * car.hourlyRate * (MoneyScale \div MinutesPerHour)
        discount == IF car.dynamicPricing
                       /\ minutes > DiscountThresholdHours * MinutesPerHour
                    THEN (subtotal \div 100) * DiscountPercent ELSE 0
        sub2     == subtotal - discount
        gst      == IF car.dynamicPricing THEN (sub2 \div 100) * GstPercent ELSE 0
    IN sub2 + gst

\* ---------------------------------------------------------------- lookups
\* mutant: the owner is not compared
RemoveMatch_IdOnly(c, id, owner) == c.id = id

\* the predicate of removeCarByIdAndOwner's find_if
RemoveMatch(c, id, owner) == c.id = id /\ c.ownerName = owner

\* the predicate of getCarByID's find_if
IdMatch(c, id) == c.id = id

\* mutant: the end() test is lost and the last record is taken instead
FindByIdAndOwner_NoEndTest(s, id, owner) ==
    IF \E i \in 1..Len(s) : RemoveMatch(s[i], id, owner)
    THEN CHOOSE i \in 1..Len(s) :
            /\ RemoveMatch(s[i], id, owner)
            /\ \A j \in 1..(i-1) : ~RemoveMatch(s[j], id, owner)
    ELSE Len(s)

\* std::find_if with RemoveMatch: index of the first match, 0 for end()
FindByIdAndOwner(s, id, owner) ==
    IF \E i \in 1..Len(s) : RemoveMatch(s[i], id, owner)
    THEN CHOOSE i \in 1..Len(s) :
            /\ RemoveMatch(s[i], id, owner)
            /\ \A j \in 1..(i-1) : ~RemoveMatch(s[j], id, owner)
    ELSE 0

\* mutant: the scan keeps the last match instead of the first
FindById_Last(s, id) ==
    IF \E i \in 1..Len(s) : IdMatch(s[i], id)
    THEN CHOOSE i \in 1..Len(s) :
            /\ IdMatch(s[i], id)
            /\ \A j \in (i+1)..Len(s) : ~IdMatch(s[j], id)
    ELSE 0

\* std::find_if with IdMatch: index of the first match, 0 for end()
FindById(s, id) ==
    IF \E i \in 1..Len(s) : IdMatch(s[i], id)
    THEN CHOOSE i \in 1..Len(s) :
            /\ IdMatch(s[i], id)
            /\ \A j \in 1..(i-1) : ~IdMatch(s[j], id)
    ELSE 0

\* mutant: the last record is dropped instead of the one found
Erase_PopBack(s, i) == SubSeq(s, 1, Len(s) - 1)

\* vector::erase(it)
Erase(s, i) == [k \in 1..(Len(s)-1) |-> IF k < i THEN s[k] ELSE s[k+1]]

\* ParkingLot::getCarByID: (it != end) ? *it : Car()
getCarByID(s, id, t) ==
    LET i == FindById(s, id) IN IF i /= 0 THEN s[i] ELSE DefaultCar(t)

\* ParkingLot::getCarCount
getCarCount(s) == Len(s)

\* mutant: getCarByID returns a reference to the stored Car
ReturnedRef_Alias(i) == i

\* getCarByID returns a Car by value: the result shares no storage
ReturnedRef(i) == 0

\* push_back(car) copy-constructs: the argument shares no storage
PushedRef(i) == 0

\* ------------------------------------------------------------------ Init
\* the fill loop of the test harness: testAddCar(createCar(1000+i, "Owner"+i))
FillLoop(n) ==
    [i \in 1..n |-> createCar(1000 + i, "Owner" \o ToString(i), FALSE,
                              DefaultHourlyRate, 0)]

NoCall == [op |-> "none"]

\* a store after construction, empty or filled by the fill loop
Init ==
    /\ \E n \in {0, PreFill} : cars = FillLoop(n)
    /\ nextCarID = FirstCarID
    /\ silentMode = FALSE
    /\ now = 0
    /\ csvRows = 0
    /\ billLog = <<>>
    /\ held = DefaultCar(0)
    /\ heldRef = 0
    /\ call = NoCall
    /\ assigned = <<>>
    /\ steps = 0

\* --------------------------------------------------------------- actions
Step == /\ steps < MaxSteps
        /\ steps' = steps + 1

\* the system clock advances
Tick ==
    /\ Step
    /\ now' = now + 1
    /\ UNCHANGED <<cars, nextCarID, silentMode, csvRows, billLog,
                   held, heldRef, call, assigned>>

\* ParkingLot::setSilentMode
setSilentMode(mode) ==
    /\ Step
    /\ silentMode' = mode
    /\ call' = [op |-> "setSilentMode"]
    /\ UNCHANGED <<cars, nextCarID, now, csvRows, billLog,
                   held, heldRef, assigned>>

\* nextCarID++ in parkCar: the id handed to the Car constructor, and the
\* counter afterwards
ParkId(n) == n

\* mutant: the counter is read but not advanced
ParkNextId_NoIncrement(n) == n

ParkNextId(n) == n + 1

\* mutant: the capacity test leaves the last place unused
HasRoom_OneShort(s) == Len(s) < MAX_CAPACITY - 1

\* mutant: off-by-one capacity test, cars.size() <= MAX_CAPACITY
HasRoom_OffByOne(s) == Len(s) <= MAX_CAPACITY

\* cars.size() < MAX_CAPACITY
HasRoom(s) == Len(s) < MAX_CAPACITY

\* ParkingLot::parkCar
parkCar(owner, p) ==
    LET car0 == CarCtor(ParkId(nextCarID), owner, "MH12AB1234", "S1",
                        p.reserved, p.rate, p.dyn, now)
        car  == IF p.hours > 0
                THEN [car0 EXCEPT !.parkingTime = now - p.hours * TicksPerHour]
                ELSE car0
        room == HasRoom(cars)
    IN /\ Step
       /\ nextCarID' = ParkNextId(nextCarID)
       /\ cars' = IF room THEN Append(cars, car) ELSE cars
       /\ csvRows' = IF room /\ ~silentMode THEN csvRows + 1 ELSE csvRows
       /\ assigned' = IF room THEN Append(assigned, car.id) ELSE assigned
       /\ call' = [op |-> "parkCar", parked |-> room]
       /\ UNCHANGED <<silentMode, now, billLog, held, heldRef>>

\* ParkingLot::testAddCar; the caller keeps its own Car object
testAddCar(car) ==
    LET room == HasRoom(cars)
    IN /\ Step
       /\ cars' = IF room THEN Append(cars, car) ELSE cars
       /\ held' = car
       /\ heldRef' = IF room THEN PushedRef(Len(cars) + 1) ELSE 0
       /\ call' = [op |-> "testAddCar", added |-> room]
       /\ UNCHANGED <<nextCarID, silentMode, now, csvRows, billLog, assigned>>

\* mutant: saveBillToText is called outside the silent-mode test
removeCarByIdAndOwner_AlwaysSaves(id, owner) ==
    LET it == FindByIdAndOwner(cars, id, owner)
    IN /\ Step
       /\ IF it = 0
          THEN /\ call' = [op |-> "removeCarByIdAndOwner", id |-> id,
                           owner |-> owner, ret |-> FALSE]
               /\ UNCHANGED <<cars, nextCarID, silentMode, now, csvRows,
                              billLog, held, heldRef, assigned>>
          ELSE /\ billLog' = Append(billLog, Bill(cars[it], now))
               /\ cars' = Erase(cars, it)
               /\ heldRef' = IF heldRef = it THEN 0
                             ELSE IF heldRef > it THEN heldRef - 1
                             ELSE heldRef
               /\ call' = [op |-> "removeCarByIdAndOwner", id |-> id,
                           owner |-> owner, ret |-> TRUE]
               /\ UNCHANGED <<nextCarID, silentMode, now, csvRows,
                              held, assigned>>

\* ParkingLot::removeCarByIdAndOwner (ParkingLot::removeCar calls it with
\* the id and owner name typed at its prompts)
removeCarByIdAndOwner(id, owner) ==
    LET it == FindByIdAndOwner(cars, id, owner)
    IN /\ Step
       /\ IF it = 0
          THEN /\ call' = [op |-> "removeCarByIdAndOwner", id |-> id,
                           owner |-> owner, ret |-> FALSE]
               /\ UNCHANGED <<cars, nextCarID, silentMode, now, csvRows,
                              billLog, held, heldRef, assigned>>
          ELSE /\ billLog' = IF ~silentMode
                             THEN Append(billLog, Bill(cars[it], now))
                             ELSE billLog
               /\ cars' = Erase(cars, it)
               /\ heldRef' = IF heldRef = it THEN 0
                             ELSE IF heldRef > it THEN heldRef - 1
                             ELSE heldRef
               /\ call' = [op |-> "removeCarByIdAndOwner", id |-> id,
                           owner |-> owner, ret |-> TRUE]
               /\ UNCHANGED <<nextCarID, silentMode, now, csvRows,
                              held, assigned>>

\* getCarByID has no throw statement and calls nothing that throws on a
\* missing id: every call returns a Car
HasThrown == FALSE

\* a caller's  Car c = lot.getCarByID(id);
callGetCarByID(id) ==
    /\ Step
    /\ held' = getCarByID(cars, id, now)
    /\ heldRef' = IF FindById(cars, id) /= 0
                  THEN ReturnedRef(FindById(cars, id)) ELSE 0
    /\ call' = [op |-> "getCarByID", id |-> id, threw |-> HasThrown]
    /\ UNCHANGED <<cars, nextCarID, silentMode, now, csvRows, billLog,
                   assigned>>

\* a caller writes to a field of its own Car object
\* (c.slot = "S99"; c.ownerName = "Changed";)
MutateHeld(field) ==
    LET c == IF field = "slot" THEN [held EXCEPT !.slot = "S99"]
             ELSE [held EXCEPT !.ownerName = "Changed"]
    IN /\ Step
       /\ call.op \in {"getCarByID", "testAddCar"}
       /\ held' = c
       /\ cars' = IF heldRef /= 0 THEN [cars EXCEPT ![heldRef] = c] ELSE cars
       /\ call' = [op |-> "mutate", of |-> call.op, field |-> field]
       /\ UNCHANGED <<nextCarID, silentMode, now, csvRows, billLog,
                      heldRef, assigned>>

\* a caller's  lot.getCarCount()
callGetCarCount ==
    /\ Step
    /\ call' = [op |-> "getCarCount", ret |-> getCarCount(cars)]
    /\ UNCHANGED <<cars, nextCarID, silentMode, now, csvRows, billLog,
                   held, heldRef, assigned>>

\* mutant: the fee is worked out from the stored record with the id of the
\* argument instead of from the argument
callCalculateFee_OfStored ==
    /\ Step
    /\ call' = [op |-> "calculateFee",
                ret |-> calculateFee(getCarByID(cars, held.id, now), now)]
    /\ UNCHANGED <<cars, nextCarID, silentMode, now, csvRows, billLog,
                   held, heldRef, assigned>>

\* a caller's  lot.calculateFee(c)
callCalculateFee ==
    /\ Step
    /\ call' = [op |-> "calculateFee", ret |-> calculateFee(held, now)]
    /\ UNCHANGED <<cars, nextCarID, silentMode, now, csvRows, billLog,
                   held, heldRef, assigned>>

\* ParkingLot::displayCars: the number of lines it writes
displayCars ==
    /\ Step
    /\ call' = [op |-> "displayCars",
                lines |-> IF silentMode THEN 0
                          ELSE IF cars = <<>> THEN 1 ELSE 1 + Len(cars)]
    /\ UNCHANGED <<cars, nextCarID, silentMode, now, csvRows, billLog,
                   held, heldRef, assigned>>

Next ==
    \/ Tick
    \/ \E mode \in BOOLEAN : setSilentMode(mode)
    \/ \E owner \in ParkOwners, p \in ParkProfiles : parkCar(owner, p)
    \/ \E f \in TestFixtures : testAddCar(TestCar(f, now))
    \/ \E a \in RemoveArgs : removeCarByIdAndOwner(a[1], a[2])
    \/ \E id \in QueryIds : callGetCarByID(id)
    \/ \E field \in {"slot", "ownerName"} : MutateHeld(field)
    \/ callGetCarCount
    \/ callCalculateFee
    \/ displayCars

Spec == Init /\ [][Next]_vars

\* ------------------------------------------------------ the menu program
\* main(): a fresh lot driven from the menu, where records enter through
\* parkCar alone and leave through removeCar; the clock runs meanwhile.
MenuInit == Init /\ cars = <<>>

MenuNext ==
    \/ Tick
    \/ \E owner \in ParkOwners, p \in ParkProfiles : parkCar(owner, p)
    \/ \E a \in RemoveArgs : removeCarByIdAndOwner(a[1], a[2])
    \/ displayCars

MenuSpec == MenuInit /\ [][MenuNext]_vars

\* ------------------------------------------------- the fee test programs
\* A fresh lot that stores one record made the way the fee tests of
\* parking_lot_test.cpp make theirs (createCar, then parkingTime moved by
\* whole minutes or hours), and is then asked for the fee of the caller's
\* record, for the bill of a removal, and to park cars at the rates a user
\* can type at the prompt.

\* id of the record under test
FeeCarId == 700

\* hourly rates of the records under test
FeeRates == {0, 60, 100}

\* how many minutes before now the record was admitted (negative: after now)
FeeMinutesAgo == {-60, 0, 1, 90, 299, 300, 301, 360}

FeeFixtures == [rate : FeeRates, dyn : BOOLEAN, ago : FeeMinutesAgo]

\* Car c = createCar(...); c.parkingTime = now - minutes(ago)
FeeCar(f, t) ==
    createCar(FeeCarId, "John Doe", f.dyn, f.rate, t - f.ago * TicksPerMinute)

\* answers at the prompts of parkCar: std::cin >> hourlyRate accepts any number
FeeParkProfiles ==
    {[rate |-> -50, dyn |-> FALSE, reserved |-> FALSE, hours |-> 5],
     [rate |-> -50, dyn |-> TRUE,  reserved |-> FALSE, hours |-> 5]}

\* arguments of removeCarByIdAndOwner in the fee programs
FeeRemoveArgs == {<<FeeCarId, "John Doe">>, <<FirstCarID, "John Doe">>}

\* ParkingLot lot; Car c = ...; lot.testAddCar(c);
FeeInit ==
    \E f \in FeeFixtures :
       /\ cars = <<FeeCar(f, 0)>>
       /\ nextCarID = FirstCarID
       /\ silentMode = FALSE
       /\ now = 0
       /\ csvRows = 0
       /\ billLog = <<>>
       /\ held = FeeCar(f, 0)
       /\ heldRef = PushedRef(1)
       /\ call = [op |-> "testAddCar", added |-> TRUE]
       /\ assigned = <<>>
       /\ steps = 1

FeeNext ==
    \/ Tick
    \/ callCalculateFee
    \/ \E a \in FeeRemoveArgs : removeCarByIdAndOwner(a[1], a[2])
    \/ \E p \in FeeParkProfiles : parkCar("John Doe", p)
    \/ callGetCarByID(FirstCarID)

FeeSpec == FeeInit /\ [][FeeNext]_vars

\* ================================================================ claims
Indices(s) == 1..Len(s)

\* some call of parkCar or testAddCar is this step
AdmissionStep ==
    \/ \E owner \in ParkOwners, p \in ParkProfiles : parkCar(owner, p)
    \/ \E f \in TestFixtures : testAddCar(TestCar(f, now))

\* C1: the number of stored records never exceeds 100, and an admission
\* (parkCar or testAddCar) attempted while 100 records are stored leaves
\* the count at 100.
C1_CapacityInvariant ==
    /\ [](getCarCount(cars) <= 100)
    /\ [][AdmissionStep /\ getCarCount(cars) = 100
            => getCarCount(cars') = 100]_vars

\* a full store on which an admission has just been attempted
C1_Witness ==
    /\ getCarCount(cars) = 100
    /\ \/ call.op = "parkCar" /\ ~call.parked
       \/ call.op = "testAddCar" /\ ~call.added

\* C2: no two successful parkCar admissions get the same id, and every id
\* handed out lies below the counter, so it is never handed out again;
\* removals in between change nothing of this.
C2_UniqueAssignedIds ==
    /\ \A i, j \in Indices(assigned) : i /= j => assigned[i] /= assigned[j]
    /\ \A i \in Indices(assigned) : assigned[i] < nextCarID

\* park, remove the parked record, park again: the store holds only the
\* second record
C2_Witness ==
    /\ Len(assigned) = 2
    /\ call.op = "parkCar" /\ call.parked
    /\ Len(cars) = 1
    /\ cars[1].id = assigned[2]

\* C3: parkCar consumes a value of the counter only on successful
\* admission: the counter has advanced exactly as often as parkCar has
\* stored a record (an attempt on a full store leaves it unchanged).
C3_CounterOnlyOnSuccess ==
    nextCarID = FirstCarID + Len(assigned)


\* a call removeCarByIdAndOwner(id, owner) is this step
RemoveStep(id, owner) == removeCarByIdAndOwner(id, owner)

\* some stored record has both this id and exactly this owner name
Matches(s, id, owner) ==
    \E i \in Indices(s) : s[i].id = id /\ s[i].ownerName = owner

\* C4: removeCarByIdAndOwner(id, owner) returns true if and only if, at
\* the time of the call, some stored record has id equal to id and
\* ownerName equal to owner exactly; a record matching only one of the two
\* never makes it succeed.
C4_RemoveIffExactMatch ==
    [][\A a \in RemoveArgs :
          RemoveStep(a[1], a[2])
            => (call'.ret <=> Matches(cars, a[1], a[2]))]_vars

\* a removal has just failed on a store holding the id under an owner name
\* that differs only in case
C4_Witness ==
    /\ call.op = "removeCarByIdAndOwner" /\ ~call.ret
    /\ call.owner = "john doe"
    /\ \E i \in Indices(cars) :
          cars[i].id = call.id /\ cars[i].ownerName = "John Doe"
    /\ \E i \in Indices(cars) :
          cars[i].id /= call.id /\ cars[i].ownerName = call.owner

\* C5: a removeCarByIdAndOwner that finds no matching record returns
\* false and leaves the store unchanged: the same records in the same
\* order, the same nextCarID, and no bill produced.
C5_FailedRemoveChangesNothing ==
    [][\A a \in RemoveArgs :
          RemoveStep(a[1], a[2]) /\ ~Matches(cars, a[1], a[2])
            => /\ call'.ret = FALSE
               /\ cars' = cars
               /\ nextCarID' = nextCarID
               /\ billLog' = billLog]_vars

\* a removal has just failed on a store that is not empty
C5_Witness ==
    /\ call.op = "removeCarByIdAndOwner" /\ ~call.ret
    /\ Len(cars) >= 2
    /\ ~silentMode

\* C6: a successful removeCarByIdAndOwner removes exactly one record, the
\* first in insertion order that matches id and owner; every other record
\* stays, unchanged and in the same relative order, the count drops by
\* one and nextCarID is unchanged.
C6_RemoveErasesFirstMatchOnly ==
    [][\A a \in RemoveArgs :
          RemoveStep(a[1], a[2]) /\ Matches(cars, a[1], a[2])
            => \E k \in Indices(cars) :
                  /\ cars[k].id = a[1] /\ cars[k].ownerName = a[2]
                  /\ \A j \in 1..(k-1) :
                        ~(cars[j].id = a[1] /\ cars[j].ownerName = a[2])
                  /\ Len(cars') = Len(cars) - 1
                  /\ \A j \in 1..(k-1) : cars'[j] = cars[j]
                  /\ \A j \in k..(Len(cars) - 1) : cars'[j] = cars[j+1]
                  /\ nextCarID' = nextCarID]_vars

\* a removal has just succeeded and left behind a later record with the
\* same id and owner, between two other records
C6_Witness ==
    /\ call.op = "removeCarByIdAndOwner" /\ call.ret
    /\ Len(cars) >= 2
    /\ \E i \in Indices(cars) :
          /\ cars[i].id = call.id /\ cars[i].ownerName = call.owner
          /\ \E j \in Indices(cars) : j /= i /\ cars[j].id /= call.id

\* C7: after removeCarByIdAndOwner(id, owner) has returned true, an
\* immediately following getCarByID(id) reports not-found: it returns the
\* sentinel record, whose id is 0.
C7_LookupAfterRemoveNotFound ==
    (call.op = "removeCarByIdAndOwner" /\ call.ret)
        => getCarByID(cars, call.id, now).id = 0

\* C8: after removeCarByIdAndOwner(id, owner) has returned true, the same
\* call repeated immediately, with no admission in between, returns false.
C8_SecondRemoveFails ==
    [][\A a \in RemoveArgs :
          (/\ call.op = "removeCarByIdAndOwner" /\ call.ret
           /\ call.id = a[1] /\ call.owner = a[2]
           /\ RemoveStep(a[1], a[2]))
            => call'.ret = FALSE]_vars

MutateStep == \E field \in {"slot", "ownerName"} : MutateHeld(field)

\* C10: the store holds records by value: a caller who mutates the record
\* returned by getCarByID, or its own record after passing it to
\* testAddCar, changes nothing in the store, and getCarByID returns the
\* same values afterwards as before.
C10_CopyIsolation ==
    [][MutateStep
         => /\ cars' = cars
            /\ \A id \in QueryIds :
                  getCarByID(cars', id, now') = getCarByID(cars, id, now)]_vars

\* the caller has just changed the slot of a record it looked up, and the
\* store still holds that record with the slot it was admitted with
C10_Witness ==
    /\ call.op = "mutate" /\ call.of = "getCarByID"
    /\ held.slot = "S99"
    /\ \E i \in Indices(cars) :
          /\ cars[i].id = held.id
          /\ cars[i].slot = "S1"
          /\ [cars[i] EXCEPT !.slot = "S99"] = held

\* C11: an admission (parkCar or testAddCar) attempted while the store holds
\* MAX_CAPACITY records is dropped silently: the stored sequence is exactly
\* the same afterwards, and parkCar writes no CSV row for it.
C11_FullStoreDropsAdmission ==
    [][AdmissionStep /\ getCarCount(cars) = MAX_CAPACITY
         => /\ cars' = cars
            /\ csvRows' = csvRows]_vars

\* parkCar has just been refused on a full store while file output was on
C11_Witness ==
    /\ call.op = "parkCar" /\ ~call.parked
    /\ ~silentMode
    /\ getCarCount(cars) = MAX_CAPACITY
    /\ \A i \in Indices(cars) : cars[i].id /= nextCarID - 1

\* testAddCar is called with this fixture in this step
TestAddStep(f) == testAddCar(TestCar(f, now))

\* C12: whether an admission succeeds depends on the occupancy alone:
\* testAddCar on a store with fewer than MAX_CAPACITY records appends
\* exactly one record, equal to its argument, at the end, whatever the
\* field values of the argument and whatever was stored or removed before.
C12_AdmissionDependsOnOccupancyOnly ==
    [][\A f \in TestFixtures :
          TestAddStep(f) /\ getCarCount(cars) < MAX_CAPACITY
             => /\ cars' = Append(cars, TestCar(f, now))
                /\ getCarCount(cars') = getCarCount(cars) + 1]_vars

\* the store was filled, one of the records admitted in this run was
\* removed again (every record of the fill loop is still there), and the
\* next testAddCar, of a record with id 0, made the count MAX_CAPACITY again
C12_Witness ==
    /\ call.op = "testAddCar" /\ call.added
    /\ getCarCount(cars) = MAX_CAPACITY
    /\ Len(billLog) = 1
    /\ SubSeq(cars, 1, PreFill) = FillLoop(PreFill)
    /\ cars[MAX_CAPACITY] = held
    /\ held.id = 0

\* ------------------------------------------------------------ fee claims
\* whole minutes from the record's admission to t, none if t is earlier
ElapsedWholeMinutes(car, t) ==
    IF t > car.parkingTime THEN (t - car.parkingTime) \div TicksPerMinute ELSE 0

\* money units in one rupee-per-hour charged for one minute
UnitsPerRateMinute == MoneyScale \div MinutesPerHour

\* calculateFee is called on the caller's record in this step
FeeStep == callCalculateFee

\* C13: removeCarByIdAndOwner bills with the formula of calculateFee: the
\* total of the bill of the removed record equals calculateFee of the same
\* record at the same instant, for every elapsed time, hourlyRate and
\* dynamicPricing.
C13_BillTotalIsCalculateFee ==
    [][\A a \in FeeRemoveArgs :
          RemoveStep(a[1], a[2])
             => \A k \in Indices(cars) :
                   (/\ cars[k].id = a[1] /\ cars[k].ownerName = a[2]
                    /\ \A j \in 1..(k-1) :
                          ~(cars[j].id = a[1] /\ cars[j].ownerName = a[2]))
                      => /\ Len(billLog') = Len(billLog) + 1
                         /\ billLog'[Len(billLog')].total
                               = calculateFee(cars[k], now)]_vars

\* a record with dynamicPricing has just been removed after more than 5
\* hours, and its bill carries a discount
C13_Witness ==
    /\ call.op = "removeCarByIdAndOwner" /\ call.ret
    /\ Len(billLog) = 1
    /\ billLog[1].minutes > 300
    /\ billLog[1].hourlyRate > 0
    /\ billLog[1].discount > 0
    /\ billLog[1].total = billLog[1].gross - billLog[1].discount + billLog[1].gst

\* C14: with dynamicPricing, the 30% discount is applied exactly when more
\* than 300 whole minutes have elapsed: up to and including 300 minutes the
\* fee is the gross plus 18% (rate 100 at 300 minutes: 590), above it is 70%
\* of that (rate 100 at 360 minutes: 495.6, less than 600).
C14_DiscountOnlyAboveFiveHours ==
    [][FeeStep /\ held.dynamicPricing
         => LET m    == ElapsedWholeMinutes(held, now)
                full == m * held.hourlyRate * (UnitsPerRateMinute \div 100) * 118
            IN /\ m <= 300 => call'.ret = full
               /\ m > 300  => call'.ret = (full \div 100) * 70
               /\ (m = 300 /\ held.hourlyRate = 100)
                     => call'.ret = 590 * MoneyScale
               /\ (m = 360 /\ held.hourlyRate = 100)
                     => /\ call'.ret = 4956 * (MoneyScale \div 10)
                        /\ call'.ret < 600 * MoneyScale]_vars

\* calculateFee has just returned 590 for a record with dynamicPricing and
\* rate 100 admitted exactly 300 whole minutes ago
C14_Witness ==
    /\ call.op = "calculateFee"
    /\ held.dynamicPricing /\ held.hourlyRate = 100
    /\ ElapsedWholeMinutes(held, now) = 300
    /\ call.ret = 590 * MoneyScale

\* C15: with dynamicPricing, the tax is 18% of the gross after the discount,
\* never of the gross before it, and the total is the discounted gross plus
\* that tax (rate 60 at 360 minutes: 297.36).
C15_TaxOnDiscountedGross ==
    [][FeeStep /\ held.dynamicPricing
         => LET m     == ElapsedWholeMinutes(held, now)
                gross == m * held.hourlyRate * UnitsPerRateMinute
                net   == IF m > 300 THEN gross - (gross \div 100) * 30
                         ELSE gross
            IN /\ call'.ret = net + (net \div 100) * 18
               /\ (net /= gross)
                     => call'.ret /= net + (gross \div 100) * 18
               /\ (m = 360 /\ held.hourlyRate = 60)
                     => call'.ret = 29736 * (MoneyScale \div 100)]_vars

\* calculateFee has just returned 297.36 for a record with dynamicPricing
\* and rate 60 admitted 360 whole minutes ago
C15_Witness ==
    /\ call.op = "calculateFee"
    /\ held.dynamicPricing /\ held.hourlyRate = 60
    /\ ElapsedWholeMinutes(held, now) = 360
    /\ call.ret = 29736 * (MoneyScale \div 100)

\* C16: without dynamicPricing, calculateFee returns exactly the elapsed
\* whole minutes / 60 times hourlyRate, with no discount and no tax, for
\* every duration, above 5 hours too (rate 60 at 90 minutes: 90).
C16_PlainFeeIsHoursTimesRate ==
    [][FeeStep /\ ~held.dynamicPricing
         => LET m == ElapsedWholeMinutes(held, now)
            IN /\ call'.ret = m * held.hourlyRate * UnitsPerRateMinute
               /\ (m = 90 /\ held.hourlyRate = 60)
                     => call'.ret = 90 * MoneyScale]_vars

\* calculateFee has just returned 360 for a record without dynamicPricing
\* and rate 60 admitted 360 whole minutes ago
C16_Witness ==
    /\ call.op = "calculateFee"
    /\ ~held.dynamicPricing /\ held.hourlyRate = 60
    /\ ElapsedWholeMinutes(held, now) = 360
    /\ call.ret = 360 * MoneyScale

\* C17: for hourlyRate >= 0 and any admission time, calculateFee is never
\* negative, and it is 0 for a record admitted later than the instant of
\* evaluation, with and without dynamicPricing.
C17_FeeNonNegative ==
    [][FeeStep /\ held.hourlyRate >= 0
         => /\ call'.ret >= 0
            /\ held.parkingTime > now => call'.ret = 0]_vars

\* calculateFee has just returned 0 for a record with dynamicPricing and a
\* positive rate whose admission time is more than a minute ahead of the clock
C17_Witness ==
    /\ call.op = "calculateFee"
    /\ held.dynamicPricing /\ held.hourlyRate > 0
    /\ held.parkingTime - now > TicksPerMinute
    /\ call.ret = 0

\* C18: with hourlyRate 0, calculateFee returns exactly 0, whatever the
\* elapsed time and dynamicPricing.
C18_ZeroRateZeroFee ==
    [][FeeStep /\ held.hourlyRate = 0 => call'.ret = 0]_vars

\* calculateFee has just returned 0 for a record with dynamicPricing and
\* rate 0 admitted more than 5 hours ago
C18_Witness ==
    /\ call.op = "calculateFee"
    /\ held.dynamicPricing /\ held.hourlyRate = 0
    /\ ElapsedWholeMinutes(held, now) > 300
    /\ call.ret = 0

\* the records parkCar has stored
ParkedIds == {assigned[k] : k \in 1..Len(assigned)}

\* C19: hourlyRate and fees are never negative: every record that entered
\* through parkCar with a rate typed by the user is stored with a
\* non-negative hourlyRate, and neither calculateFee of it nor the total
\* of a bill is ever negative.
C19_RateAndFeesNonNegative ==
    /\ \A i \in Indices(cars) :
          cars[i].id \in ParkedIds
             => /\ cars[i].hourlyRate >= 0
                /\ calculateFee(cars[i], now) >= 0
    /\ \A k \in 1..Len(billLog) : billLog[k].total >= 0

\* the clock advances in this step
ClockStep == now' > now

\* C20 as claimed: for a fixed record with hourlyRate >= 0 the fee never
\* decreases as time advances, with and without dynamicPricing, across the
\* 5-hour discount threshold too.
C20_FeeMonotonicInTime ==
    [][ClockStep
         => \A i \in Indices(cars) :
               cars[i].hourlyRate >= 0
                  => calculateFee(cars[i], now) <= calculateFee(cars[i], now')]_vars

\* C20 as the code has it: for a fixed record with hourlyRate >= 0 the fee
\* never decreases as time advances without dynamicPricing, and with
\* dynamicPricing as long as both instants are at most 300 whole minutes
\* or both more than 300 whole minutes after admission; when the 300th
\* whole minute is passed with dynamicPricing and a positive rate, the fee
\* drops.
C20_FeeMonotonicApartFromDiscountStep ==
    [][ClockStep
         => \A i \in Indices(cars) :
               LET c      == cars[i]
                   before == ElapsedWholeMinutes(c, now)
                   after  == ElapsedWholeMinutes(c, now')
                   across == c.dynamicPricing /\ before <= 300 /\ after > 300
               IN c.hourlyRate >= 0
                     => /\ ~across
                           => calculateFee(c, now) <= calculateFee(c, now')
                        /\ (across /\ c.hourlyRate > 0)
                           => calculateFee(c, now') < calculateFee(c, now)]_vars

\* the clock has passed a whole minute, and the stored record, with
\* dynamicPricing and more than 300 minutes old from the start, costs more
\* now than it did at the start
C20_Witness ==
    /\ now > 0
    /\ \E i \in Indices(cars) :
          /\ cars[i].dynamicPricing /\ cars[i].hourlyRate > 0
          /\ ElapsedWholeMinutes(cars[i], 0) > 300
          /\ calculateFee(cars[i], 0) < calculateFee(cars[i], now)

\* C21: elapsed time is counted in whole minutes, the fraction of a minute
\* dropped before the division by 60: a stay shorter than one minute costs
\* exactly 0, with dynamicPricing too; a stay of exactly one minute at a
\* positive rate costs more than 0; and two instants inside the same whole
\* elapsed minute give the same fee.
C21_WholeMinutesOnly ==
    [][/\ FeeStep
          => LET d == now - held.parkingTime
             IN /\ (0 <= d /\ d < TicksPerMinute) => call'.ret = 0
                /\ (d = TicksPerMinute /\ held.hourlyRate > 0) => call'.ret > 0
       /\ ClockStep
          => \A i \in Indices(cars) :
                LET d == now - cars[i].parkingTime
                    e == now' - cars[i].parkingTime
                IN (0 <= d /\ d \div TicksPerMinute = e \div TicksPerMinute)
                      => calculateFee(cars[i], now') = calculateFee(cars[i], now)]_vars

\* calculateFee has just returned 0 for a record with dynamicPricing and a
\* positive rate admitted a fraction of a minute ago
C21_Witness ==
    /\ call.op = "calculateFee"
    /\ held.dynamicPricing /\ held.hourlyRate > 0
    /\ now - held.parkingTime > 0
    /\ now - held.parkingTime < TicksPerMinute
    /\ call.ret = 0

\* C22: the id of a record is unique among the records in the store: in
\* every state reachable through parkCar, testAddCar and
\* removeCarByIdAndOwner no two stored records have the same id.
C22_UniqueStoredIds ==
    \A i, j \in Indices(cars) : cars[i].id = cars[j].id => i = j

\* the same record with the other value of reservedSlot
ReservedTwin(c) == [c EXCEPT !.reservedSlot = ~c.reservedSlot]

\* the same answers at the prompts of parkCar, but the other one at the
\* reserved-slot prompt
ReservedTwinProfile(p) == [p EXCEPT !.reserved = ~p.reserved]

\* C23: reservedSlot is informational only: an admission and the same
\* admission with the other value of reservedSlot are both stored or both
\* dropped, and two records that differ in reservedSlot alone get the same
\* fee from calculateFee and the same bill total on removal.
C23_ReservedSlotInformationalOnly ==
    /\ \A f \in TestFixtures :
          (ENABLED (testAddCar(TestCar(f, now)) /\ call'.added))
             <=> (ENABLED (testAddCar(ReservedTwin(TestCar(f, now)))
                              /\ call'.added))
    /\ \A owner \in ParkOwners, p \in ParkProfiles :
          (ENABLED (parkCar(owner, p) /\ call'.parked))
             <=> (ENABLED (parkCar(owner, ReservedTwinProfile(p))
                              /\ call'.parked))
    /\ \A c \in {cars[i] : i \in Indices(cars)} \cup {held} :
          /\ calculateFee(ReservedTwin(c), now) = calculateFee(c, now)
          /\ Bill(ReservedTwin(c), now).total = Bill(c, now).total

\* a record parked on a reserved slot is in the store and has run up a fee
C23_Witness ==
    \E i \in Indices(cars) :
       /\ cars[i].reservedSlot
       /\ cars[i].id \in ParkedIds
       /\ calculateFee(cars[i], now) > 0

\* one of the read-only members getCarByID, getCarCount, displayCars is
\* called in this step
QueryStep ==
    \/ \E id \in QueryIds : callGetCarByID(id)
    \/ callGetCarCount
    \/ displayCars

\* C24: calculateFee is a pure function of its record argument and the
\* instant: it changes neither the stored sequence nor nextCarID nor the
\* record passed in, and its result is the same whether or not that record,
\* or any record, is in the store; getCarByID, getCarCount and displayCars
\* likewise leave the store and the counter unchanged.
C24_QueriesChangeNothing ==
    [][/\ FeeStep
          => /\ cars' = cars /\ nextCarID' = nextCarID /\ held' = held
             /\ call'.ret = calculateFee(held, now)
       /\ QueryStep
          => cars' = cars /\ nextCarID' = nextCarID]_vars

\* calculateFee has just returned a fee for a record whose id is held by a
\* different stored record with another fee
C24_Witness ==
    /\ call.op = "calculateFee"
    /\ call.ret = calculateFee(held, now)
    /\ \E i \in Indices(cars) :
          /\ cars[i].id = held.id
          /\ calculateFee(cars[i], now) /= call.ret

\* removeCarByIdAndOwner is called in this step and returns true
RemovedStep ==
    /\ \E a \in RemoveArgs : RemoveStep(a[1], a[2])
    /\ call'.ret

\* C25 as claimed: every successful removeCarByIdAndOwner appends its bill
\* to the bill log exactly once and nothing else appends to it: the number
\* of entries always equals the number of successful removals.
C25_BillLoggedOnEveryRemoval ==
    [][Len(billLog') = Len(billLog) + (IF RemovedStep THEN 1 ELSE 0)]_vars

\* C25 as the code has it: a successful removeCarByIdAndOwner appends its
\* bill to the bill log exactly once when silent mode is off and appends
\* nothing when silent mode is on; a failed removal and every other
\* operation append nothing.
C25_BillLoggedUnlessSilent ==
    [][billLog' = IF RemovedStep /\ ~silentMode
                  THEN Append(billLog, billLog'[Len(billLog')])
                  ELSE billLog]_vars

\* two removals have succeeded, the first with silent mode off and the
\* second with silent mode on, and the bill log holds the one bill of the
\* first
C25_Witness ==
    /\ call.op = "removeCarByIdAndOwner" /\ call.ret
    /\ silentMode
    /\ Len(billLog) = 1
    /\ billLog[1].id /= call.id \/ billLog[1].ownerName /= call.owner

\* C26: getCarByID(id) returns the Car with that id, and throws instead of
\* returning a record when no stored record has that id.
C26_LookupThrowsWhenNotFound ==
    call.op = "getCarByID"
       => IF \E i \in Indices(cars) : cars[i].id = call.id
          THEN ~call.threw /\ held.id = call.id
          ELSE call.threw

C28_SentinelNeverARealRecord ==
    \A id \in QueryIds :
       (getCarByID(cars, id, now).id = 0)
          <=> ~(\E i \in Indices(cars) : cars[i].id = id)

\* C29: when records enter the store through parkCar alone, then after any
\* interleaving of parkCar and removeCarByIdAndOwner the ids of the stored
\* sequence are strictly increasing in insertion order, and every stored
\* id is at least 1001 and less than nextCarID.
C29_ParkedIdsIncreasing ==
    /\ \A i, j \in Indices(cars) : i < j => cars[i].id < cars[j].id
    /\ \A i \in Indices(cars) :
          1001 <= cars[i].id /\ cars[i].id < nextCarID

\* three cars were parked and the second was removed again: the store
\* holds the first and the third
C29_Witness ==
    /\ nextCarID = 1004
    /\ getCarCount(cars) = 2
    /\ cars[1].id = 1001 /\ cars[2].id = 1003
    /\ call.op = "removeCarByIdAndOwner" /\ call.ret

\* C30: the breakdown on the bill of removeCarByIdAndOwner is consistent:
\* total = gross - discount + tax, where gross is the undiscounted
\* elapsed hours * hourlyRate shown on the bill; the discount is nonzero
\* only with dynamicPricing and more than 5 hours elapsed; discount and tax
\* are both zero without dynamicPricing.
C30_BillBreakdownConsistent ==
    [][\A a \in FeeRemoveArgs :
          (RemoveStep(a[1], a[2]) /\ call'.ret)
             => LET c == cars[CHOOSE k \in Indices(cars) :
                            /\ cars[k].id = a[1] /\ cars[k].ownerName = a[2]
                            /\ \A j \in 1..(k-1) :
                                  ~(cars[j].id = a[1]
                                       /\ cars[j].ownerName = a[2])]
                    m == ElapsedWholeMinutes(c, now)
                    b == billLog'[Len(billLog')]
                IN /\ Len(billLog') = Len(billLog) + 1
                   /\ b.gross = m * c.hourlyRate * UnitsPerRateMinute
                   /\ b.total = b.gross - b.discount + b.gst
                   /\ b.discount /= 0 => (c.dynamicPricing /\ m > 300)
                   /\ ~c.dynamicPricing => (b.discount = 0 /\ b.gst = 0)]_vars

\* two bills are in the log: one of a record without dynamicPricing, with
\* neither discount nor tax, and one with a discount and tax on top
C30_Witness ==
    /\ Len(billLog) = 2
    /\ \E k \in 1..2 :
          /\ billLog[k].gross /= 0
          /\ billLog[k].discount = 0 /\ billLog[k].gst = 0
          /\ billLog[k].total = billLog[k].gross
    /\ \E k \in 1..2 :
          /\ billLog[k].discount /= 0 /\ billLog[k].gst /= 0
          /\ billLog[k].gross - billLog[k].discount < billLog[k].total
          /\ billLog[k].total < billLog[k].gross

====
